---- MODULE Spec2Model ----
(***************************************************************************)
(* Model of the amapiano-channel pipeline: batch_process.process_batch     *)
(* orders the fetched tracks (order_for_flow), create_compilation computes *)
(* chapters, renders one segment per track and concatenates them.          *)
(* Durations are whole seconds.    External processes (ffmpeg, ffprobe) are  *)
(* the environment: their exit codes are drawn in Init and consulted when  *)
(* the code calls them.                                                    *)
(***************************************************************************)
EXTENDS Integers, Sequences, FiniteSets, TLC

(* ---------------------------------------------------------------- bounds *)
MaxTracks == 3

(* ------------------------------------------------------------- constants *)
Absent == -1                     \* dict key not present / value None
NotRun == -1                     \* external process not invoked (yet)

Moods == {"chill", "party", "deep", "fusion"}

\* Track dicts as process_batch leaves them: detected_mood, bpm, duration,
\* local_audio ("none" = no path, "missing" = path whose file is gone,
\* "present" = path of an existing file), local_image ("none" | "set").
Catalogue ==
  { [detected_mood |-> "party",  bpm |-> 110,    duration |-> 200, local_audio |-> "present", local_image |-> "set"],
    [detected_mood |-> "chill",  bpm |-> 90,     duration |-> 150, local_audio |-> "present", local_image |-> "set"],
    [detected_mood |-> "deep",   bpm |-> Absent, duration |-> 300, local_audio |-> "present", local_image |-> "set"],
    [detected_mood |-> "chill",  bpm |-> 0,      duration |-> 150, local_audio |-> "none",    local_image |-> "set"],
    [detected_mood |-> "chill",  bpm |-> 110,    duration |-> 0,   local_audio |-> "present", local_image |-> "none"],
    [detected_mood |-> "chill",  bpm |-> Absent, duration |-> 200, local_audio |-> "missing", local_image |-> "set"],
    [detected_mood |-> "fusion", bpm |-> 0,      duration |-> 300, local_audio |-> "present", local_image |-> "set"] }

\* A track list: n catalogue entries, the title is the input position.
MkTrack(c, k) ==
  [title |-> k, detected_mood |-> c.detected_mood, bpm |-> c.bpm,
   duration |-> c.duration, local_audio |-> c.local_audio,
   local_image |-> c.local_image]

TrackLists ==
  UNION { { [k \in 1..n |-> MkTrack(f[k], k)] : f \in [1..n -> Catalogue] }
          : n \in 0..MaxTracks }

\* create_short.py: SHORT_DURATION
SHORT_DURATION == 45

ExitCodes == {0, 1}

VARIABLES
  tracks,            \* process_batch: tracks after group_by_mood
  compilation_info,  \* process_batch: total_duration, track_count, ordered tracks
  encoderExit,       \* environment: exit code of the segment encoder for track i
  audioConcatExit,   \* environment: exit code of the raw-audio concat
  finalConcatExit,   \* environment: exit code of the final video concat
  pc,                \* position in process_batch / create_compilation
  audio_files,       \* create_compilation: indices of tracks whose audio exists
  audioRc,           \* returncode of the audio concat (NotRun if not invoked)
  chapters,          \* create_compilation: chapter list
  i,                 \* segment loop index (1-based)
  segment_files,     \* create_compilation: segment indices listed for concat
  encoderCalls,      \* per track: number of encoder invocations
  encoderRc,         \* per track: returncode of the last encoder invocation
  concat_list,       \* contents of concat_list.txt
  concatRc,          \* returncode of the final concat
  result             \* create_compilation: "running" | "None" | "dict" | "raised"

\* format_timestamp on its own
VARIABLES
  secondsIn,           \* format_timestamp: the argument
  timestamp          \* format_timestamp: the returned string ("none" before the call)

\* detect_mood on its own
VARIABLES
  descriptionIn,       \* detect_mood: the argument, a sequence of characters
  scores,            \* detect_mood: the scores dict
  mood_result        \* detect_mood: the returned mood ("none" before the call)

\* the render operations on their own
VARIABLES
  renderOp,          \* which render operation is called
  audioFile,         \* os.path.exists(audio_path)
  imageFile,         \* os.path.exists(image_path)
  maskArg,           \* mask_path: "none" (not passed) | "missing" | "present"
  effectArg,         \* the effect argument ("omitted" when left out)
  nameArg,           \* the track_name argument ("" when left out)
  invertArg,         \* create_parallax_video: invert_mask
  visualizerArg,     \* create_compilation: include_visualizer
  probeOut,          \* environment: what the duration probe does
  encoderOut,        \* environment: what the encoder does
  renderResult,      \* "running" | "True" | "False" | "raised"
  graph,             \* the filter graph passed to the encoder (<<>> if none built)
  audioMap,          \* the audio stream mapped into the output ("" if none)
  inputCount,        \* number of -i inputs on the encoder command line
  encoderRuns        \* number of encoder invocations

\* the short assembler's command line on its own
VARIABLES
  metaDuration,      \* metadata['duration'] in seconds (Absent if not there)
  startArg,          \* --start in seconds (Absent if not given)
  durationArg,       \* --duration in seconds (SHORT_DURATION if not given)
  start_time,        \* __main__: start_time, in twentieths of a second
  clipSs,            \* create_short: the -ss value, in twentieths of a second
  clipT,             \* create_short: the -t value, in twentieths of a second
  shortPc            \* "start" | "called"

\* asset fetching on its own
VARIABLES
  fs,                \* the file system: path -> content (NoFile if absent)
  requests,          \* number of requests sent to the collaborators so far
  assetCalls,        \* number of calls of the two fetch functions so far
  lastPath,          \* output_path of the last call ("" before any call)
  lastReturn,        \* what the last call returned: a path | "None" | "raised"
  fsBefore,          \* the file system when the last call started
  requestsBefore     \* requests when the last call started

\* batch_fetch_metadata and the head of process_batch on their own
VARIABLES
  urls,              \* the URL list, each with what fetching it does
  fetchIdx,          \* batch_fetch_metadata: loop index (1-based)
  fetchCounts,       \* per URL: number of fetch_suno_metadata calls
  fetched,           \* batch_fetch_metadata: tracks
  fetchPc,           \* "loop" | "done"
  batchReturn,       \* process_batch: "running" | "None" | "dict" | "raised"
  infoWritten        \* compilation_info.json has been written

\* get_audio_duration on its own
VARIABLES
  probeFile,         \* the audio path exists
  probeStarts,       \* environment: the probe executable can be started
  probeExit,         \* environment: the probe's exit code
  probeStdout,       \* environment: the probe's standard output, as characters
  probeReturn,       \* "none" | "float" | the name of the exception raised
  probeValue         \* the float returned, in tenths of a second

\* the order of the stages over a whole run
VARIABLES
  stageTracks,       \* the fetched tracks, in URL order (title = URL position)
  stageOrder,        \* process_batch: ordered_tracks (<<>> until ordered)
  stagePc,           \* "fetch" | "classify" | "assets" | "segments" | "done"
  stageIdx,          \* index of the loop the run is in (1-based)
  stageLog           \* the stages run so far, as <<stage, track title>>

\* the numbers of one segment or clip
VARIABLES
  clipOp,            \* the graph the numbers are computed for
  clipDuration,      \* duration, in hundredths of a second
  total_frames,      \* int(duration * VIDEO_FPS)
  fadeOutStart,      \* the st= of the fade-out, in hundredths of a second
  zoomExpr,          \* the z= expression of the zoompan stage
  clipPc             \* "start" | "built"

\* the text overlays on their own
VARIABLES
  textOp,            \* the operation that builds the overlay
  titleIn,           \* the track title, as characters
  channelIn,         \* config: CHANNEL_NAME, as characters
  overlayTexts,      \* the text='...' arguments put into the graph, in order
  textPc             \* "start" | "built"

pipeVars == <<tracks, compilation_info, encoderExit, audioConcatExit,
              finalConcatExit, pc, audio_files, audioRc, chapters, i,
              segment_files, encoderCalls, encoderRc, concat_list, concatRc,
              result>>
tsVars == <<secondsIn, timestamp>>
moodVars == <<descriptionIn, scores, mood_result>>
renderVars == <<renderOp, audioFile, imageFile, maskArg, effectArg, nameArg,
                invertArg, visualizerArg, probeOut, encoderOut, renderResult,
                graph, audioMap,
                inputCount, encoderRuns>>
hookVars == <<metaDuration, startArg, durationArg, start_time, clipSs, clipT,
              shortPc>>
assetVars == <<fs, requests, assetCalls, lastPath, lastReturn, fsBefore,
               requestsBefore>>
fetchVars == <<urls, fetchIdx, fetchCounts, fetched, fetchPc, batchReturn,
               infoWritten>>
probeVars == <<probeFile, probeStarts, probeExit, probeStdout, probeReturn,
               probeValue>>
stageVars == <<stageTracks, stageOrder, stagePc, stageIdx, stageLog>>
clipVars == <<clipOp, clipDuration, total_frames, fadeOutStart, zoomExpr,
              clipPc>>
textVars == <<textOp, titleIn, channelIn, overlayTexts, textPc>>
\* the state of a part of the program that a run does not exercise
PipeIdle ==
  /\ tracks = <<>>
  /\ compilation_info = [total_duration |-> 0, track_count |-> 0, tracks |-> <<>>]
  /\ encoderExit = <<>>
  /\ audioConcatExit = 0
  /\ finalConcatExit = 0
  /\ pc = "idle"
  /\ audio_files = <<>>
  /\ audioRc = NotRun
  /\ chapters = <<>>
  /\ i = 1
  /\ segment_files = <<>>
  /\ encoderCalls = <<>>
  /\ encoderRc = <<>>
  /\ concat_list = <<>>
  /\ concatRc = NotRun
  /\ result = "running"
TsIdle == secondsIn = 0 /\ timestamp = "none"
MoodIdle ==
  /\ descriptionIn = <<>>
  /\ scores = [mood \in {"chill", "party", "deep", "fusion"} |-> 0]
  /\ mood_result = "none"
RenderIdle ==
  /\ renderOp = "none"
  /\ audioFile = FALSE
  /\ imageFile = FALSE
  /\ maskArg = "none"
  /\ effectArg = "omitted"
  /\ nameArg = ""
  /\ invertArg = FALSE
  /\ visualizerArg = TRUE
  /\ probeOut = "ok"
  /\ encoderOut = "zero"
  /\ renderResult = "running"
  /\ graph = <<>>
  /\ audioMap = ""
  /\ inputCount = 0
  /\ encoderRuns = 0
HookIdle ==
  /\ metaDuration = Absent
  /\ startArg = Absent
  /\ durationArg = SHORT_DURATION
  /\ start_time = Absent
  /\ clipSs = Absent
  /\ clipT = Absent
  /\ shortPc = "idle"
AssetIdle ==
  /\ fs = <<>>
  /\ requests = 0
  /\ assetCalls = 0
  /\ lastPath = ""
  /\ lastReturn = ""
  /\ fsBefore = <<>>
  /\ requestsBefore = 0
FetchIdle ==
  /\ urls = <<>>
  /\ fetchIdx = 1
  /\ fetchCounts = <<>>
  /\ fetched = <<>>
  /\ fetchPc = "idle"
  /\ batchReturn = "running"
  /\ infoWritten = FALSE
ProbeIdle ==
  /\ probeFile = FALSE
  /\ probeStarts = FALSE
  /\ probeExit = 0
  /\ probeStdout = <<>>
  /\ probeReturn = "idle"
  /\ probeValue = 0
StageIdle ==
  /\ stageTracks = <<>>
  /\ stageOrder = <<>>
  /\ stagePc = "idle"
  /\ stageIdx = 1
  /\ stageLog = <<>>
ClipIdle ==
  /\ clipOp = "none"
  /\ clipDuration = 0
  /\ total_frames = 0
  /\ fadeOutStart = 0
  /\ zoomExpr = [rate |-> 0, cap |-> 0]
  /\ clipPc = "idle"
TextIdle ==
  /\ textOp = "none"
  /\ titleIn = <<>>
  /\ channelIn = <<>>
  /\ overlayTexts = <<>>
  /\ textPc = "idle"

\* every variable, by the part of the program it belongs to
vars == <<pipeVars, tsVars, moodVars, renderVars, hookVars, assetVars, fetchVars, probeVars, stageVars, clipVars, textVars>>

\* the variables a part leaves alone, and their state when it alone runs
exceptPipe == <<tsVars, moodVars, renderVars, hookVars, assetVars, fetchVars, probeVars, stageVars, clipVars, textVars>>
IdleExceptPipe == TsIdle /\ MoodIdle /\ RenderIdle /\ HookIdle /\ AssetIdle /\ FetchIdle /\ ProbeIdle /\ StageIdle /\ ClipIdle /\ TextIdle
exceptTs == <<pipeVars, moodVars, renderVars, hookVars, assetVars, fetchVars, probeVars, stageVars, clipVars, textVars>>
IdleExceptTs == PipeIdle /\ MoodIdle /\ RenderIdle /\ HookIdle /\ AssetIdle /\ FetchIdle /\ ProbeIdle /\ StageIdle /\ ClipIdle /\ TextIdle
exceptMood == <<pipeVars, tsVars, renderVars, hookVars, assetVars, fetchVars, probeVars, stageVars, clipVars, textVars>>
IdleExceptMood == PipeIdle /\ TsIdle /\ RenderIdle /\ HookIdle /\ AssetIdle /\ FetchIdle /\ ProbeIdle /\ StageIdle /\ ClipIdle /\ TextIdle
exceptRender == <<pipeVars, tsVars, moodVars, hookVars, assetVars, fetchVars, probeVars, stageVars, clipVars, textVars>>
IdleExceptRender == PipeIdle /\ TsIdle /\ MoodIdle /\ HookIdle /\ AssetIdle /\ FetchIdle /\ ProbeIdle /\ StageIdle /\ ClipIdle /\ TextIdle
exceptHook == <<pipeVars, tsVars, moodVars, renderVars, assetVars, fetchVars, probeVars, stageVars, clipVars, textVars>>
IdleExceptHook == PipeIdle /\ TsIdle /\ MoodIdle /\ RenderIdle /\ AssetIdle /\ FetchIdle /\ ProbeIdle /\ StageIdle /\ ClipIdle /\ TextIdle
exceptAsset == <<pipeVars, tsVars, moodVars, renderVars, hookVars, fetchVars, probeVars, stageVars, clipVars, textVars>>
IdleExceptAsset == PipeIdle /\ TsIdle /\ MoodIdle /\ RenderIdle /\ HookIdle /\ FetchIdle /\ ProbeIdle /\ StageIdle /\ ClipIdle /\ TextIdle
exceptFetch == <<pipeVars, tsVars, moodVars, renderVars, hookVars, assetVars, probeVars, stageVars, clipVars, textVars>>
IdleExceptFetch == PipeIdle /\ TsIdle /\ MoodIdle /\ RenderIdle /\ HookIdle /\ AssetIdle /\ ProbeIdle /\ StageIdle /\ ClipIdle /\ TextIdle
exceptProbe == <<pipeVars, tsVars, moodVars, renderVars, hookVars, assetVars, fetchVars, stageVars, clipVars, textVars>>
IdleExceptProbe == PipeIdle /\ TsIdle /\ MoodIdle /\ RenderIdle /\ HookIdle /\ AssetIdle /\ FetchIdle /\ StageIdle /\ ClipIdle /\ TextIdle
exceptStage == <<pipeVars, tsVars, moodVars, renderVars, hookVars, assetVars, fetchVars, probeVars, clipVars, textVars>>
IdleExceptStage == PipeIdle /\ TsIdle /\ MoodIdle /\ RenderIdle /\ HookIdle /\ AssetIdle /\ FetchIdle /\ ProbeIdle /\ ClipIdle /\ TextIdle
exceptClip == <<pipeVars, tsVars, moodVars, renderVars, hookVars, assetVars, fetchVars, probeVars, stageVars, textVars>>
IdleExceptClip == PipeIdle /\ TsIdle /\ MoodIdle /\ RenderIdle /\ HookIdle /\ AssetIdle /\ FetchIdle /\ ProbeIdle /\ StageIdle /\ TextIdle
exceptText == <<pipeVars, tsVars, moodVars, renderVars, hookVars, assetVars, fetchVars, probeVars, stageVars, clipVars>>
IdleExceptText == PipeIdle /\ TsIdle /\ MoodIdle /\ RenderIdle /\ HookIdle /\ AssetIdle /\ FetchIdle /\ ProbeIdle /\ StageIdle /\ ClipIdle
\* end of the variable groups

(* ------------------------------------------------------- pure functions *)

\* dict.get(key, default)
Get(v, default) == IF v = Absent THEN default ELSE v

\* mood_order numbered in the declaration order of MOOD_KEYWORDS
mood_order_declared(m) ==
  CASE m = "chill"  -> 0
    [] m = "party"  -> 1
    [] m = "deep"   -> 2
    [] m = "fusion" -> 3
    [] OTHER        -> 0

\* batch_process.order_for_flow.sort_key: mood_order
mood_order(m) ==
  CASE m = "chill"  -> 0
    [] m = "deep"   -> 1
    [] m = "fusion" -> 2
    [] m = "party"  -> 3
    [] OTHER        -> 0

\* batch_process.order_for_flow.sort_key
sort_key(track) == <<mood_order(track.detected_mood), Get(track.bpm, 100)>>

\* tuple comparison a < b
KeyLess(a, b) == a[1] < b[1] \/ (a[1] = b[1] /\ a[2] < b[2])

\* an insertion that puts t before the elements of equal key
RECURSIVE Insert_BeforeEqual(_, _)
Insert_BeforeEqual(s, t) ==
  IF s = <<>> THEN <<t>>
  ELSE IF ~KeyLess(sort_key(Head(s)), sort_key(t))
       THEN <<t>> \o s
       ELSE <<Head(s)>> \o Insert_BeforeEqual(Tail(s), t)

\* sorted(): stable insertion of t into the sorted list s, after every
\* element whose key is not greater.
RECURSIVE Insert(_, _)
Insert(s, t) ==
  IF s = <<>> THEN <<t>>
  ELSE IF KeyLess(sort_key(t), sort_key(Head(s)))
       THEN <<t>> \o s
       ELSE <<Head(s)>> \o Insert(Tail(s), t)

RECURSIVE Sorted(_)
Sorted(s) ==
  IF s = <<>> THEN <<>>
  ELSE Insert(Sorted(SubSeq(s, 1, Len(s) - 1)), s[Len(s)])

\* batch_process.order_for_flow
order_for_flow(ts) == Sorted(ts)

\* batch_process.MOOD_KEYWORDS: per mood, the keywords as character sequences
MOOD_KEYWORDS ==
  [ chill |->
    << <<"n","o","s","t","a","l","g","i","c">>,
       <<"c","h","i","l","l">>,
       <<"m","e","l","l","o","w">>,
       <<"r","e","l","a","x">>,
       <<"w","a","r","m">>,
       <<"s","o","f","t">>,
       <<"g","e","n","t","l","e">>,
       <<"c","a","l","m">>,
       <<"a","m","b","i","e","n","t">>,
       <<"s","t","u","d","y">> >>,
    party |->
    << <<"p","a","r","t","y">>,
       <<"d","a","n","c","e">>,
       <<"e","n","e","r","g","y">>,
       <<"c","l","u","b">>,
       <<"h","y","p","e">>,
       <<"b","a","s","s">>,
       <<"u","p","b","e","a","t">>,
       <<"g","r","o","o","v","e">>,
       <<"b","o","u","n","c","e">>,
       <<"h","i","g","h"," ","e","n","e","r","g","y">> >>,
    deep |->
    << <<"d","e","e","p">>,
       <<"s","o","u","l","f","u","l">>,
       <<"e","m","o","t","i","o","n","a","l">>,
       <<"i","n","t","r","o","s","p","e","c","t","i","v","e">>,
       <<"m","e","l","a","n","c","h","o","l","i","c">>,
       <<"r","e","f","l","e","c","t","i","v","e">>,
       <<"m","o","o","d","y">> >>,
    fusion |->
    << <<"f","u","s","i","o","n">>,
       <<"w","o","r","l","d">>,
       <<"e","x","p","e","r","i","m","e","n","t","a","l">>,
       <<"h","a","u","s","a">>,
       <<"f","u","j","i">>,
       <<"a","f","r","o","b","e","a","t">>,
       <<"g","o","j","e">>,
       <<"t","r","a","d","i","t","i","o","n","a","l">>,
       <<"e","t","h","n","i","c">> >> ]

\* iteration order of the MOOD_KEYWORDS dict (declaration order)
MoodsDeclared == <<"chill", "party", "deep", "fusion">>

\* words descriptions are made of: "deep", "Party", "dance", "chill",
\* "hyperactive" (holds the keyword "hype") and "the" (holds no keyword)
Vocabulary ==
  { <<"d","e","e","p">>,
    <<"P","a","r","t","y">>,
    <<"d","a","n","c","e">>,
    <<"c","h","i","l","l">>,
    <<"h","y","p","e","r","a","c","t","i","v","e">>,
    <<"t","h","e">> }

MaxWords == 5

\* " ".join(words)
RECURSIVE Join(_)
Join(ws) ==
  IF ws = <<>> THEN <<>>
  ELSE IF Len(ws) = 1 THEN ws[1]
  ELSE ws[1] \o <<" ">> \o Join(Tail(ws))

Descriptions ==
  { Join(ws) : ws \in UNION { [1..n -> Vocabulary] : n \in 0..MaxWords } }

\* str.lower() on the characters the vocabulary uses
LowerChar(c) == IF c = "P" THEN "p" ELSE c
lower(d) == [k \in 1..Len(d) |-> LowerChar(d[k])]

\* keyword in desc_lower
Contains(keyword, d) ==
  \E j \in 1..(Len(d) - Len(keyword) + 1) :
    SubSeq(d, j, j + Len(keyword) - 1) = keyword

\* detect_mood: the score of one mood, +1 for each keyword that is present
MoodScore(mood, desc_lower) ==
  Cardinality({ j \in 1..Len(MOOD_KEYWORDS[mood]) :
                  Contains(MOOD_KEYWORDS[mood][j], desc_lower) })

\* detect_mood: the scores dict
MoodScores(description) ==
  [mood \in Moods |-> MoodScore(mood, lower(description))]

\* a max that keeps the last of several maximal keys
RECURSIVE MaxKey_LastWins(_, _, _)
MaxKey_LastWins(sc, k, best) ==
  IF k > Len(MoodsDeclared) THEN best
  ELSE MaxKey_LastWins(sc, k + 1,
         IF sc[MoodsDeclared[k]] >= sc[best] THEN MoodsDeclared[k] ELSE best)

\* max(scores, key=scores.get): scan in dict order from position k, keeping
\* the first key of maximal score
RECURSIVE MaxKey(_, _, _)
MaxKey(sc, k, best) ==
  IF k > Len(MoodsDeclared) THEN best
  ELSE MaxKey(sc, k + 1,
         IF sc[MoodsDeclared[k]] > sc[best] THEN MoodsDeclared[k] ELSE best)

\* batch_process.detect_mood, given the scores
BestMood(sc) ==
  LET best == MaxKey(sc, 2, MoodsDeclared[1])
  IN IF sc[best] > 0 THEN best ELSE "chill"

detect_mood(description) == BestMood(MoodScores(description))

\* batch_process.calculate_total_duration
RECURSIVE calculate_total_duration(_)
calculate_total_duration(ts) ==
  IF ts = <<>> THEN 0
  ELSE ts[1].duration + calculate_total_duration(Tail(ts))

Digits == <<"0", "1", "2", "3", "4", "5", "6", "7", "8", "9">>

RECURSIVE IntStr(_)
IntStr(n) ==
  IF n < 10 THEN Digits[n + 1]
  ELSE IntStr(n \div 10) \o Digits[(n % 10) + 1]

\* the :02d format
Pad2(n) == IF n < 10 THEN "0" \o IntStr(n) ELSE IntStr(n)

\* a format_timestamp whose minutes are not reduced modulo the hour
format_timestamp_TotalMinutes(seconds) ==
  LET hours   == seconds \div 3600
      minutes == seconds \div 60
      secs    == seconds % 60
  IN IF hours > 0
     THEN IntStr(hours) \o ":" \o Pad2(minutes) \o ":" \o Pad2(secs)
     ELSE IntStr(minutes) \o ":" \o Pad2(secs)

\* create_compilation.format_timestamp
format_timestamp(seconds) ==
  LET hours   == seconds \div 3600
      minutes == (seconds % 3600) \div 60
      secs    == seconds % 60
  IN IF hours > 0
     THEN IntStr(hours) \o ":" \o Pad2(minutes) \o ":" \o Pad2(secs)
     ELSE IntStr(minutes) \o ":" \o Pad2(secs)

\* a chapter loop that advances current_time before recording the chapter
RECURSIVE ChapterLoop_AdvanceFirst(_, _, _, _)
ChapterLoop_AdvanceFirst(ts, k, chs, current_time) ==
  IF k > Len(ts) THEN chs
  ELSE ChapterLoop_AdvanceFirst(ts, k + 1,
         Append(chs, [title     |-> ts[k].title,
                      start     |-> current_time + ts[k].duration,
                      timestamp |-> format_timestamp(current_time + ts[k].duration)]),
         current_time + ts[k].duration)

\* create_compilation, step 2: the chapter loop from track k on, carrying
\* the chapter list built so far and the running offset current_time.
RECURSIVE ChapterLoop(_, _, _, _)
ChapterLoop(ts, k, chs, current_time) ==
  IF k > Len(ts) THEN chs
  ELSE ChapterLoop(ts, k + 1,
                   Append(chs, [title     |-> ts[k].title,
                                start     |-> current_time,
                                timestamp |-> format_timestamp(current_time)]),
                   current_time + ts[k].duration)

compute_chapters(ts) == ChapterLoop(ts, 1, <<>>, 0)

\* create_compilation, step 1: audio_path and os.path.exists(audio_path)
AudioUsable(track) == track.local_audio = "present"

\* create_compilation, step 3: "if not image_path or not audio_path: continue"
Skipped(track) == track.local_image = "none" \/ track.local_audio = "none"

\* create_compilation, step 3: segment_files after the iteration for track k
\* whose encoder exited with rc (the path is appended before the render).
ListSegment(sf, k, rc) == Append(sf, k)

\* an outcome that does not look at the final concat's exit code
ConcatResult_IgnoresExit(rc, probe) ==
  IF probe = "ok" THEN "dict" ELSE "raised"

\* create_compilation, step 4: outcome once the final concat exited with rc
\* and ffprobe printed probe ("ok" parses as a float, "unparsable" does not).
ConcatResult(rc, probe) ==
  IF rc # 0 THEN "None"
  ELSE IF probe = "ok" THEN "dict" ELSE "raised"

Indices(s) == [k \in 1..Len(s) |-> k]

(* ------------------------------------------------------- hook section *)

\* times are kept in twentieths of a second, so that 0.15 * t is exact
Ticks == 20

Max(a, b) == IF a > b THEN a ELSE b
Min(a, b) == IF a < b THEN a ELSE b

\* create_short.find_hook_section(audio_path, track_duration); track_duration
\* in seconds, the result in twentieths of a second
find_hook_section(track_duration) ==
  LET hook_start == 3 * track_duration
      max_start == Ticks * (track_duration - SHORT_DURATION - 5)
  IN  IF hook_start > max_start THEN Max(0, max_start) ELSE hook_start

(* ------------------------------------------------------ asset fetching *)

NoFile == 0

\* os.path.exists(path), never true
Exists_Never(fsys, path) == FALSE

\* os.path.exists(path)
Exists(fsys, path) == fsys[path] # NoFile

\* the content of a file whose writing was cut short
Partial == 3

\* a writer that leaves nothing behind when it is interrupted
WriteInterrupted_Atomic(fsys, path) == fsys

\* open(output_path, 'wb') and a write that does not finish: the file is
\* created at output_path itself and keeps what was written
WriteInterrupted(fsys, path) == [fsys EXCEPT ![path] = Partial]

\* process_batch: if audio_path: track['local_audio'] = audio_path (and the
\* same for the images): what the track carries on to rendering
StoredInTrack(returned) ==
  IF returned \in {"None", "raised", "interrupted", ""} THEN "" ELSE returned

\* track.get('slug', 'unknown')
SlugOf(track) == IF "slug" \in DOMAIN track THEN track.slug ELSE "unknown"

\* generate_track_image: output_path
ImagePath(track, output_dir, vertical) ==
  IF vertical THEN output_dir \o "/" \o SlugOf(track) \o "_vertical.png"
  ELSE output_dir \o "/" \o SlugOf(track) \o ".png"

\* download_track_audio: output_path
AudioPath(track, output_dir) == output_dir \o "/" \o SlugOf(track) \o ".mp3"

(* ------------------------------------------------------ metadata fetch *)

\* what fetch_suno_metadata(url) does for a URL: raise, return a dict without
\* title (no clip found), with an empty title, with title and duration, or
\* with a title and a null duration
FetchOutcomes == {"raises", "no_title", "empty_title", "ok", "null_duration"}

\* the dict fetch_suno_metadata returns for the k-th URL
MetadataOf(k, outcome) ==
  CASE outcome = "ok" ->
         [title |-> "Track", duration |-> 200, suno_url |-> k, slug |-> "track"]
    [] outcome = "null_duration" ->
         [title |-> "Track", duration |-> Absent, suno_url |-> k, slug |-> "track"]
    [] outcome = "empty_title" ->
         [title |-> "", duration |-> 0, suno_url |-> k]
    [] OTHER -> [playlist |-> "new"]

\* the truth value of metadata.get('title')
HasTitle(metadata) == "title" \in DOMAIN metadata /\ metadata.title # ""

\* batch_fetch_metadata appending whatever was fetched
AppendFetched_Always(list, metadata) == Append(list, metadata)

\* batch_fetch_metadata: if metadata.get('title'): tracks.append(metadata)
AppendFetched(list, metadata) ==
  IF HasTitle(metadata) THEN Append(list, metadata) ELSE list

(* ----------------------------------------------------- duration probe *)

\* str.strip(): the probe ends its output with a newline
strip(chars) ==
  IF chars # <<>> /\ chars[Len(chars)] = "\n"
  THEN SubSeq(chars, 1, Len(chars) - 1) ELSE chars

DigitValue(c) == CHOOSE n \in 0..9 : Digits[n + 1] = c

IsDigit(c) == \E n \in 0..9 : Digits[n + 1] = c

\* the value of a string of digits
RECURSIVE DigitsValue(_)
DigitsValue(chars) ==
  IF chars = <<>> THEN 0
  ELSE 10 * DigitsValue(SubSeq(chars, 1, Len(chars) - 1))
       + DigitValue(chars[Len(chars)])

\* float(s) accepts s: digits, a point, one digit (the probe prints seconds
\* with decimals; one decimal is kept)
IsFloat(chars) ==
  /\ Len(chars) >= 3
  /\ chars[Len(chars) - 1] = "."
  /\ \A k \in 1..Len(chars) : k # Len(chars) - 1 => IsDigit(chars[k])

\* float(s), in tenths of a second
FloatTenths(chars) ==
  10 * DigitsValue(SubSeq(chars, 1, Len(chars) - 2))
  + DigitValue(chars[Len(chars)])

\* the characters of a whole number
RECURSIVE IntChars(_)
IntChars(n) ==
  IF n < 10 THEN <<Digits[n + 1]>>
  ELSE Append(IntChars(n \div 10), Digits[(n % 10) + 1])

\* what the probe prints for a duration of t tenths of a second
DurationLine(t) == IntChars(t \div 10) \o <<".", Digits[(t % 10) + 1], "\n">>

\* get_audio_duration(audio_path): the outcome and the value
get_audio_duration(starts, stdout) ==
  IF ~starts THEN [kind |-> "FileNotFoundError", value |-> 0]
  ELSE IF IsFloat(strip(stdout))
  THEN [kind |-> "float", value |-> FloatTenths(strip(stdout))]
  ELSE [kind |-> "ValueError", value |-> 0]

(* ------------------------------------------------ frames, fade and zoom *)

\* config.example.py: VIDEO_FPS
VIDEO_FPS == 30

\* durations are kept in hundredths of a second
Hundredths == 100

\* create_short.py: the d= of both fades, 1 second
FadeDuration == 100

\* zoom factors are kept in units of 0.00001; 1.0 is ZoomUnit
ZoomUnit == 100000

\* a zoom expression without min(..., cap)
NoCap == 0

\* int(duration * VIDEO_FPS): int() drops the fraction
TotalFrames(hundredths) == (hundredths * VIDEO_FPS) \div Hundredths

\* create_short.py: fade=t=out:st={duration-1}:d=1
FadeOutStart(hundredths) == hundredths - FadeDuration

\* the z= expression of the slow zoom in each graph: the rate per frame and
\* the cap, for z='1+rate*on' (no cap) and z='min(zoom+rate,cap)'
ZoomExprOf(op) ==
  CASE op = "create_compilation.segment" -> [rate |-> 15, cap |-> NoCap]
    [] op = "create_short" -> [rate |-> 30, cap |-> NoCap]
    [] op = "create_visualizer_video.zoom" -> [rate |-> 30, cap |-> 150000]
    [] op = "create_visualizer_video.glow_spectrum" -> [rate |-> 20, cap |-> NoCap]
    [] op = "create_visualizer_video.circle_viz" -> [rate |-> 30, cap |-> NoCap]

\* the zoom factor the expression gives at output frame n
ZoomAt(expr, n) ==
  IF expr.cap = NoCap THEN ZoomUnit + expr.rate * n
  ELSE Min(ZoomUnit + expr.rate * (n + 1), expr.cap)

(* -------------------------------------------------------- text overlay *)

\* str.replace(old, new) for a one-character old
RECURSIVE replace(_, _, _)
replace(chars, old, new) ==
  IF chars = <<>> THEN <<>>
  ELSE (IF chars[1] = old THEN new ELSE <<chars[1]>>)
       \o replace(Tail(chars), old, new)

\* create_video.py: track_name.replace("'", "\\'").replace(":", "\\:")
safe_name(track_name) ==
  replace(replace(track_name, "'", <<"\\", "'">>), ":", <<"\\", ":">>)

\* create_short.py, create_compilation.py:
\* title.replace("'", "'\\''").replace(":", "\\:")
safe_title(title) ==
  replace(replace(title, "'", <<"'", "\\", "'", "'">>), ":", <<"\\", ":">>)

\* create_short.py: CHANNEL_NAME.replace("'", "'\\''")
safe_channel(channel) == replace(channel, "'", <<"'", "\\", "'", "'">>)

\* the text='...' arguments each operation puts into its graph
OverlayTexts(op, title, channel) ==
  CASE op = "create_visualizer_video" ->
         IF title # <<>> THEN <<safe_name(title), channel>> ELSE <<>>
    [] op = "create_short" -> <<safe_title(title), <<"@">> \o safe_channel(channel)>>
    [] op = "create_compilation.segment" -> <<safe_title(title)>>

(* ---------------------------------------------------- filter graphs *)

\* one stage of a filter graph: the labels it consumes, its filter chain,
\* the labels it produces
St(ins, chain, outs) == [in |-> ins, f |-> chain, out |-> outs]

\* create_video.create_visualizer_video: the effects with a branch of their own
NamedEffects ==
  { "zoom", "pulse", "waves", "spectrum",
    "glow_spectrum", "audio_pulse", "circle_viz", "bars_bottom",
    "dual_waves", "audioreactive", "neon_bars", "trees_pulse",
    "silhouette_glow", "object_breathe", "masked_glow", "people_glow",
    "vintage" }

\* effect values a caller passes: the named ones, "static" (an argparse
\* choice without a branch), an unknown value, and the argument left out
EffectArgs == NamedEffects \cup {"static", "bogus", "omitted"}

\* create_visualizer_video's default: effect: str = "zoom"
EffectOrDefault(e) == IF e = "omitted" THEN "zoom" ELSE e

\* create_visualizer_video: video_filter per effect
video_filter(effect) ==
  CASE effect = "zoom" ->
         << St(<<"1:v">>, <<"scale", "crop", "zoompan">>, <<"v">>) >>
    [] effect = "pulse" ->
         << St(<<"1:v">>, <<"scale", "crop", "hue">>, <<"v">>) >>
    [] effect = "waves" ->
         << St(<<"1:v">>, <<"scale", "crop">>, <<"bg">>),
            St(<<"0:a">>, <<"showwaves">>, <<"waves">>),
            St(<<"bg", "waves">>, <<"overlay">>, <<"v">>) >>
    [] effect = "spectrum" ->
         << St(<<"1:v">>, <<"scale", "crop">>, <<"bg">>),
            St(<<"0:a">>, <<"showcqt">>, <<"cqt">>),
            St(<<"bg", "cqt">>, <<"overlay">>, <<"v">>) >>
    [] effect = "glow_spectrum" ->
         << St(<<"1:v">>, <<"scale", "crop", "zoompan">>, <<"bg">>),
            St(<<"0:a">>, <<"showfreqs">>, <<"freq">>),
            St(<<"freq">>, <<"gblur", "format", "colorchannelmixer">>, <<"glow">>),
            St(<<"bg", "glow">>, <<"overlay">>, <<"v">>) >>
    [] effect = "audio_pulse" ->
         << St(<<"0:a">>, <<"asplit">>, <<"a1", "a2">>),
            St(<<"a2">>, <<"showvolume", "scale", "format", "geq">>, <<"vol">>),
            St(<<"1:v">>, <<"scale", "crop">>, <<"img">>),
            St(<<"img", "vol">>, <<"displace">>, <<"displaced">>),
            St(<<"displaced">>, <<"zoompan">>, <<"v">>) >>
    [] effect = "circle_viz" ->
         << St(<<"1:v">>, <<"scale", "crop", "zoompan">>, <<"bg">>),
            St(<<"0:a">>, <<"avectorscope">>, <<"scope">>),
            St(<<"scope">>, <<"gblur", "format", "colorchannelmixer">>, <<"glow">>),
            St(<<"bg", "glow">>, <<"overlay">>, <<"v">>) >>
    [] effect = "bars_bottom" ->
         << St(<<"1:v">>, <<"scale", "crop", "zoompan">>, <<"bg">>),
            St(<<"0:a">>, <<"showfreqs">>, <<"bars">>),
            St(<<"bars">>, <<"format", "colorchannelmixer">>, <<"barbright">>),
            St(<<"bg", "barbright">>, <<"overlay">>, <<"v">>) >>
    [] effect = "dual_waves" ->
         << St(<<"1:v">>, <<"scale", "crop">>, <<"bg">>),
            St(<<"0:a">>, <<"asplit">>, <<"a1", "a2">>),
            St(<<"a1">>, <<"showwaves">>, <<"top">>),
            St(<<"a2">>, <<"showwaves", "vflip">>, <<"bot">>),
            St(<<"bg", "top">>, <<"overlay">>, <<"mid">>),
            St(<<"mid", "bot">>, <<"overlay">>, <<"v">>) >>
    [] effect = "audioreactive" ->
         << St(<<"1:v">>, <<"scale", "crop">>, <<"img">>),
            St(<<"0:a">>, <<"showvolume">>, <<"vol">>),
            St(<<"img", "vol">>, <<"overlay", "geq", "zoompan">>, <<"v">>) >>
    [] effect = "neon_bars" ->
         << St(<<"1:v">>, <<"scale", "crop", "zoompan", "eq">>, <<"bg">>),
            St(<<"0:a">>, <<"asplit">>, <<"a1", "a2">>),
            St(<<"a1">>, <<"showfreqs">>, <<"bars">>),
            St(<<"a2">>, <<"showfreqs", "vflip", "colorchannelmixer">>, <<"reflect">>),
            St(<<"bars">>, <<"gblur">>, <<"glow">>),
            St(<<"bg", "glow">>, <<"overlay">>, <<"withbars">>),
            St(<<"withbars", "reflect">>, <<"overlay">>, <<"v">>) >>
    [] effect = "trees_pulse" ->
         << St(<<"1:v">>, <<"scale", "crop", "geq", "zoompan">>, <<"v">>) >>
    [] effect = "silhouette_glow" ->
         << St(<<"1:v">>, <<"scale", "crop">>, <<"base">>),
            St(<<"base">>, <<"split">>, <<"bg", "edge_src">>),
            St(<<"edge_src">>, <<"edgedetect", "negate", "geq", "hue", "gblur">>, <<"purple_glow">>),
            St(<<"bg", "purple_glow">>, <<"blend", "zoompan">>, <<"v">>) >>
    [] effect = "object_breathe" ->
         << St(<<"1:v">>, <<"scale", "crop">>, <<"base">>),
            St(<<"base">>, <<"geq", "zoompan">>, <<"v">>) >>
    [] effect = "masked_glow" ->
         << St(<<"1:v">>, <<"scale", "crop">>, <<"bg">>),
            St(<<"2:v">>, <<"scale", "format">>, <<"mask">>),
            St(<<"bg">>, <<"split">>, <<"base", "effect_src">>),
            St(<<"effect_src">>, <<"geq", "gblur">>, <<"glowing">>),
            St(<<"base", "glowing", "mask">>, <<"maskedmerge">>, <<"merged">>),
            St(<<"merged">>, <<"zoompan">>, <<"v">>) >>
    [] effect = "people_glow" ->
         << St(<<"1:v">>, <<"scale", "crop">>, <<"bg">>),
            St(<<"2:v">>, <<"scale", "format">>, <<"mask">>),
            St(<<"bg">>, <<"split">>, <<"base", "glow_src">>),
            St(<<"glow_src">>, <<"hue", "gblur">>, <<"effect">>),
            St(<<"base", "effect", "mask">>, <<"maskedmerge">>, <<"merged">>),
            St(<<"merged">>, <<"zoompan">>, <<"v">>) >>
    [] effect = "vintage" ->
         << St(<<"1:v">>, <<"scale", "crop", "noise", "vignette", "colorbalance">>, <<"v">>) >>
    [] OTHER ->
         << St(<<"1:v">>, <<"scale", "crop", "loop">>, <<"v">>) >>

\* create_visualizer_video: map_args, the audio stream that is mapped
map_args(effect) == IF effect = "audio_pulse" THEN "a1" ELSE "0:a"

\* filter_complex.replace("[v]", text + channel + "[v]"): the drawtext pair is
\* appended to the chain of every stage that produces [v]
AddText(g) ==
  [k \in 1..Len(g) |->
     IF \E j \in 1..Len(g[k].out) : g[k].out[j] = "v"
     THEN [g[k] EXCEPT !.f = @ \o <<"drawtext", "drawtext">>]
     ELSE g[k]]

\* create_visualizer_video: filter_complex; mask_path is in scope but the
\* graph is chosen by effect alone
filter_complex(effect, track_name, mask_path) ==
  IF track_name # "" THEN AddText(video_filter(effect)) ELSE video_filter(effect)

\* create_short.create_short: filter_complex
short_filter_complex ==
  << St(<<"0:v">>, <<"scale", "crop", "zoompan", "vignette">>, <<"bg">>),
     St(<<"1:a">>, <<"showfreqs">>, <<"bars_raw">>),
     St(<<"bars_raw">>, <<"split">>, <<"b1", "b2">>),
     St(<<"b1">>, <<"gblur">>, <<"blur">>),
     St(<<"blur", "b2">>, <<"blend">>, <<"bars_glow">>),
     St(<<"bars_glow">>, <<"format", "geq">>, <<"bars_fade">>),
     St(<<"bg", "bars_fade">>, <<"overlay">>, <<"with_bars">>),
     St(<<"with_bars">>, <<"fade", "fade", "drawtext", "drawtext">>, <<"v">>) >>

\* create_compilation: filter_complex of one segment
segment_filter_complex(include_visualizer) ==
  IF include_visualizer
  THEN << St(<<"0:v">>, <<"scale", "crop", "zoompan", "vignette">>, <<"bg">>),
          St(<<"1:a">>, <<"showfreqs">>, <<"bars_raw">>),
          St(<<"bars_raw">>, <<"split">>, <<"b1", "b2">>),
          St(<<"b1">>, <<"gblur">>, <<"blur">>),
          St(<<"blur", "b2">>, <<"blend">>, <<"bars_glow">>),
          St(<<"bars_glow">>, <<"format">>, <<"bars_fmt">>),
          St(<<"bg", "bars_fmt">>, <<"overlay">>, <<"with_bars">>),
          St(<<"with_bars">>, <<"drawtext">>, <<"v">>) >>
  ELSE << St(<<"0:v">>, <<"scale", "crop", "zoompan", "vignette">>, <<"bg">>),
          St(<<"bg">>, <<"drawtext">>, <<"v">>) >>

\* create_video.create_short: the -filter_complex argument
legacy_short_filter ==
  << St(<<"1:v">>, <<"scale", "crop", "zoompan">>, <<"v">>) >>

\* create_parallax_fixed.create_parallax_video: filter_complex
parallax_filter_complex(invert_mask) ==
  << St(<<"1:v">>, IF invert_mask THEN <<"format", "negate">> ELSE <<"format">>, <<"mask">>),
     St(<<"0:v", "mask">>, <<"alphamerge">>, <<"fg_raw">>),
     St(<<"0:v">>, <<"scale", "zoompan", "gblur">>, <<"bg">>),
     St(<<"fg_raw">>, <<"scale", "zoompan">>, <<"fg">>),
     St(<<"bg", "fg">>, <<"overlay">>, <<"v">>) >>

(* ------------------------------------------------------------- the run *)

Init ==
  /\ tracks \in TrackLists
  /\ compilation_info = [total_duration |-> 0, track_count |-> 0, tracks |-> <<>>]
  \* the encoder cannot open an audio path whose file is gone, and a concat
  \* of zero inputs is not a valid graph: those invocations exit non-zero
  /\ encoderExit \in [1..Len(tracks) -> ExitCodes]
  /\ \A k \in 1..Len(tracks) :
       tracks[k].local_audio = "missing" => encoderExit[k] # 0
  /\ audioConcatExit \in ExitCodes
  /\ (\A k \in 1..Len(tracks) : ~AudioUsable(tracks[k])) => audioConcatExit # 0
  /\ finalConcatExit \in ExitCodes
  /\ pc = "batch"
  /\ audio_files = <<>>
  /\ audioRc = NotRun
  /\ chapters = <<>>
  /\ i = 1
  /\ segment_files = <<>>
  /\ encoderCalls = [k \in 1..Len(tracks) |-> 0]
  /\ encoderRc = [k \in 1..Len(tracks) |-> NotRun]
  /\ concat_list = <<>>
  /\ concatRc = NotRun
  /\ result = "running"
  /\ IdleExceptPipe

\* process_batch with an empty track list: "No tracks fetched!", return None
ProcessBatchEmpty ==
  /\ pc = "batch"
  /\ tracks = <<>>
  /\ pc' = "batch_none"
  /\ UNCHANGED <<tracks, compilation_info, encoderExit, audioConcatExit,
                 finalConcatExit, audio_files, audioRc, chapters, i,
                 segment_files, encoderCalls, encoderRc, concat_list,
                 concatRc, result>>
  /\ UNCHANGED exceptPipe

\* process_batch: total duration, order_for_flow, compilation_info
ProcessBatch ==
  /\ pc = "batch"
  /\ tracks # <<>>
  /\ compilation_info' =
       [total_duration |-> calculate_total_duration(tracks),
        track_count    |-> Len(order_for_flow(tracks)),
        tracks         |-> order_for_flow(tracks)]
  /\ pc' = "audio"
  /\ UNCHANGED <<tracks, encoderExit, audioConcatExit, finalConcatExit,
                 audio_files, audioRc, chapters, i, segment_files,
                 encoderCalls, encoderRc, concat_list, concatRc, result>>
  /\ UNCHANGED exceptPipe

\* create_compilation, step 1: raw-audio concat
AudioConcat ==
  /\ pc = "audio"
  /\ LET ts == compilation_info.tracks
         af == SelectSeq(Indices(ts), LAMBDA k : AudioUsable(ts[k]))
     IN /\ audio_files' = af
        /\ IF Len(af) = 1
           THEN /\ audioRc' = NotRun
                /\ pc' = "chapters"
                /\ result' = result
           ELSE /\ audioRc' = audioConcatExit
                /\ IF audioConcatExit # 0
                   THEN pc' = "done" /\ result' = "None"
                   ELSE pc' = "chapters" /\ result' = result
  /\ UNCHANGED <<tracks, compilation_info, encoderExit, audioConcatExit,
                 finalConcatExit, chapters, i, segment_files, encoderCalls,
                 encoderRc, concat_list, concatRc>>
  /\ UNCHANGED exceptPipe

\* create_compilation, step 2: chapter timestamps
Chapters ==
  /\ pc = "chapters"
  /\ chapters' = compute_chapters(compilation_info.tracks)
  /\ i' = 1
  /\ pc' = "segments"
  /\ UNCHANGED <<tracks, compilation_info, encoderExit, audioConcatExit,
                 finalConcatExit, audio_files, audioRc, segment_files,
                 encoderCalls, encoderRc, concat_list, concatRc, result>>
  /\ UNCHANGED exceptPipe

\* create_compilation, step 3: one iteration of the segment loop
Segment ==
  /\ pc = "segments"
  /\ LET ts == compilation_info.tracks
         t  == ts[i]
         \* the ordered list is a permutation of the input; the encoder's
         \* exit code belongs to the track (its title is the input position)
         rc == encoderExit[t.title]
     IN /\ IF Skipped(t)
           THEN UNCHANGED <<segment_files, encoderCalls, encoderRc>>
           ELSE /\ segment_files' = ListSegment(segment_files, i, rc)
                /\ encoderCalls' = [encoderCalls EXCEPT ![i] = @ + 1]
                /\ encoderRc' = [encoderRc EXCEPT ![i] = rc]
        /\ i' = i + 1
        /\ pc' = IF i = Len(ts) THEN "concat" ELSE "segments"
  /\ UNCHANGED <<tracks, compilation_info, encoderExit, audioConcatExit,
                 finalConcatExit, audio_files, audioRc, chapters,
                 concat_list, concatRc, result>>
  /\ UNCHANGED exceptPipe

\* create_compilation, step 4: no segment listed
ConcatNoSegments ==
  /\ pc = "concat"
  /\ Len(segment_files) = 0
  /\ result' = "None"
  /\ pc' = "done"
  /\ UNCHANGED <<tracks, compilation_info, encoderExit, audioConcatExit,
                 finalConcatExit, audio_files, audioRc, chapters, i,
                 segment_files, encoderCalls, encoderRc, concat_list,
                 concatRc>>
  /\ UNCHANGED exceptPipe

\* create_compilation, step 4: concat list, final concat, probe, return
Concat ==
  /\ pc = "concat"
  /\ Len(segment_files) # 0
  /\ concat_list' = segment_files
  /\ concatRc' = finalConcatExit
  /\ \E probe \in {"ok", "unparsable"} :
       result' = ConcatResult(finalConcatExit, probe)
  /\ pc' = "done"
  /\ UNCHANGED <<tracks, compilation_info, encoderExit, audioConcatExit,
                 finalConcatExit, audio_files, audioRc, chapters, i,
                 segment_files, encoderCalls, encoderRc>>
  /\ UNCHANGED exceptPipe

Next ==
  \/ ProcessBatchEmpty
  \/ ProcessBatch
  \/ AudioConcat
  \/ Chapters
  \/ Segment
  \/ ConcatNoSegments
  \/ Concat

Spec == Init /\ [][Next]_vars

(* ------------------------------------------ format_timestamp on its own *)

MaxSeconds == 4000

InitTimestamp ==
  /\ secondsIn \in 0..MaxSeconds
  /\ timestamp = "none"
  /\ IdleExceptTs

\* a call of format_timestamp(secondsIn)
FormatTimestamp ==
  /\ timestamp = "none"
  /\ timestamp' = format_timestamp(secondsIn)
  /\ UNCHANGED secondsIn
  /\ UNCHANGED exceptTs

NextTimestamp == FormatTimestamp

SpecTimestamp == InitTimestamp /\ [][NextTimestamp]_vars

(* ----------------------------------------------- detect_mood on its own *)

InitMood ==
  /\ descriptionIn \in Descriptions
  /\ scores = [mood \in Moods |-> 0]
  /\ mood_result = "none"
  /\ IdleExceptMood

\* a call of detect_mood(descriptionIn)
DetectMood ==
  /\ mood_result = "none"
  /\ scores' = MoodScores(descriptionIn)
  /\ mood_result' = detect_mood(descriptionIn)
  /\ UNCHANGED descriptionIn
  /\ UNCHANGED exceptMood

NextMood == DetectMood

SpecMood == InitMood /\ [][NextMood]_vars

(* ------------------------------------------ the render operations alone *)

RenderOps == {"create_visualizer_video", "create_short",
              "create_video.create_short", "create_parallax_video"}

\* what the duration probe can do: print a number, print nothing (it exits
\* non-zero or the file has no duration), or fail to start
ProbeOutcomes == {"ok", "empty", "nostart"}

\* what the encoder can do: exit 0, exit non-zero, or fail to start
EncoderOutcomes == {"zero", "nonzero", "nostart"}

TrackNames == {"", "Sunset Groove"}

MaskedEffects == {"masked_glow", "people_glow"}

InitRender ==
  /\ renderOp \in RenderOps \cup {"create_compilation.segment"}
  /\ audioFile \in BOOLEAN
  /\ imageFile \in BOOLEAN
  /\ maskArg \in {"none", "missing", "present"}
  /\ effectArg \in EffectArgs
  /\ nameArg \in TrackNames
  /\ invertArg \in BOOLEAN
  /\ visualizerArg \in BOOLEAN
  /\ probeOut \in ProbeOutcomes
  /\ encoderOut \in EncoderOutcomes
  \* arguments an operation does not take stay at their idle value
  /\ renderOp # "create_visualizer_video" => effectArg = "omitted" /\ probeOut = "ok"
  /\ renderOp \in {"create_short", "create_video.create_short",
                   "create_compilation.segment"} => maskArg = "none"
  /\ renderOp = "create_parallax_video" => maskArg # "none"
  /\ renderOp \in {"create_video.create_short", "create_parallax_video"} => nameArg = ""
  /\ renderOp # "create_parallax_video" => invertArg = FALSE
  /\ renderOp # "create_compilation.segment" => visualizerArg = TRUE
  /\ renderOp = "create_compilation.segment" => nameArg # ""
  \* the encoder cannot exit 0 on an input file that does not exist
  /\ (renderOp = "create_video.create_short" /\ ~(audioFile /\ imageFile))
       => encoderOut # "zero"
  /\ renderResult = "running"
  /\ graph = <<>>
  /\ audioMap = ""
  /\ inputCount = 0
  /\ encoderRuns = 0
  /\ IdleExceptRender

RenderInputs == <<renderOp, audioFile, imageFile, maskArg, effectArg, nameArg,
                  invertArg, visualizerArg, probeOut, encoderOut>>

\* subprocess.run inside try/except Exception: every outcome is a bool
RunGuarded(out) == IF out = "zero" THEN "True" ELSE "False"

\* subprocess.run outside any try: failing to start propagates
RunBare(out) ==
  IF out = "nostart" THEN "raised" ELSE IF out = "zero" THEN "True" ELSE "False"

\* create_video.create_visualizer_video(audio, image, out, track_name, effect,
\* mask_path=...)
CreateVisualizerVideo ==
  /\ renderOp = "create_visualizer_video"
  /\ renderResult = "running"
  /\ LET effect == EffectOrDefault(effectArg)
         needsMask == maskArg # "none" /\ effect \in MaskedEffects
     IN  IF ~audioFile \/ ~imageFile
         THEN /\ renderResult' = "False"
              /\ UNCHANGED <<graph, audioMap, inputCount, encoderRuns>>
         ELSE IF probeOut # "ok"
         THEN \* get_audio_duration is called outside the try
              /\ renderResult' = "raised"
              /\ UNCHANGED <<graph, audioMap, inputCount, encoderRuns>>
         ELSE /\ graph' = filter_complex(effect, nameArg, maskArg)
              /\ audioMap' = map_args(effect)
              /\ IF needsMask /\ maskArg = "missing"
                 THEN /\ renderResult' = "False"
                      /\ inputCount' = 2
                      /\ UNCHANGED encoderRuns
                 ELSE /\ inputCount' = IF needsMask THEN 3 ELSE 2
                      /\ encoderRuns' = encoderRuns + 1
                      /\ renderResult' = RunGuarded(encoderOut)
  /\ UNCHANGED RenderInputs
  /\ UNCHANGED exceptRender

\* create_short.create_short(audio, image, out, track_name)
CreateShort ==
  /\ renderOp = "create_short"
  /\ renderResult = "running"
  /\ IF ~audioFile \/ ~imageFile
     THEN /\ renderResult' = "False"
          /\ UNCHANGED <<graph, audioMap, inputCount, encoderRuns>>
     ELSE /\ graph' = short_filter_complex
          /\ audioMap' = "1:a"
          /\ inputCount' = 2
          /\ encoderRuns' = encoderRuns + 1
          /\ renderResult' = RunBare(encoderOut)
  /\ UNCHANGED RenderInputs
  /\ UNCHANGED exceptRender

\* create_video.create_short(audio, image, out)
CreateShortLegacy ==
  /\ renderOp = "create_video.create_short"
  /\ renderResult = "running"
  /\ graph' = legacy_short_filter
  /\ audioMap' = "0:a"
  /\ inputCount' = 2
  /\ encoderRuns' = encoderRuns + 1
  /\ renderResult' = RunGuarded(encoderOut)
  /\ UNCHANGED RenderInputs
  /\ UNCHANGED exceptRender

\* create_parallax_fixed.create_parallax_video(image, mask, out, audio_path=...)
CreateParallaxVideo ==
  /\ renderOp = "create_parallax_video"
  /\ renderResult = "running"
  /\ IF ~imageFile \/ maskArg = "missing"
     THEN /\ renderResult' = "False"
          /\ UNCHANGED <<graph, audioMap, inputCount, encoderRuns>>
     ELSE /\ graph' = parallax_filter_complex(invertArg)
          /\ audioMap' = IF audioFile THEN "2:a" ELSE ""
          /\ inputCount' = IF audioFile THEN 3 ELSE 2
          /\ encoderRuns' = encoderRuns + 1
          \* check=True with except subprocess.CalledProcessError only
          /\ renderResult' = RunBare(encoderOut)
  /\ UNCHANGED RenderInputs
  /\ UNCHANGED exceptRender

\* create_compilation: one turn of the segment loop, for a track whose
\* local_audio / local_image are set (audioFile, imageFile) or not
CompilationSegment ==
  /\ renderOp = "create_compilation.segment"
  /\ renderResult = "running"
  /\ IF ~imageFile \/ ~audioFile
     THEN /\ renderResult' = "skipped"
          /\ UNCHANGED <<graph, audioMap, inputCount, encoderRuns>>
     ELSE /\ graph' = segment_filter_complex(visualizerArg)
          /\ audioMap' = "1:a"
          /\ inputCount' = 2
          /\ encoderRuns' = encoderRuns + 1
          /\ renderResult' = RunBare(encoderOut)
  /\ UNCHANGED RenderInputs
  /\ UNCHANGED exceptRender

NextRender ==
  \/ CreateVisualizerVideo
  \/ CreateShort
  \/ CreateShortLegacy
  \/ CreateParallaxVideo
  \/ CompilationSegment

SpecRender == InitRender /\ [][NextRender]_vars

(* ------------------------------------- the short assembler's main alone *)

MaxTrackSeconds == 200

\* clip lengths asked for on the command line
ClipDurations == {15, 30, 45, 60}

StartArgs == {Absent, 0, 30}

InitHook ==
  /\ metaDuration \in {Absent} \cup 1..MaxTrackSeconds
  /\ startArg \in StartArgs
  /\ durationArg \in ClipDurations
  /\ start_time = Absent
  /\ clipSs = Absent
  /\ clipT = Absent
  /\ shortPc = "start"
  /\ IdleExceptHook

\* metadata.get('duration', 180)
TrackDuration == IF metaDuration = Absent THEN 180 ELSE metaDuration

\* create_short.py __main__: choose start_time, then call create_short with
\* -ss start_time -t args.duration
ShortMain ==
  /\ shortPc = "start"
  /\ LET st == IF startArg # Absent THEN Ticks * startArg
               ELSE find_hook_section(TrackDuration)
     IN  /\ start_time' = st
         /\ clipSs' = st
         /\ clipT' = Ticks * durationArg
  /\ shortPc' = "called"
  /\ UNCHANGED <<metaDuration, startArg, durationArg>>
  /\ UNCHANGED exceptHook

NextHook == ShortMain

SpecHook == InitHook /\ [][NextHook]_vars

(* ------------------------------------------------ asset fetching alone *)

MaxAssetCalls == 3

\* tracks as the fetch functions see them: a dict with or without slug and
\* mp3_url
AssetTracks ==
  { [slug |-> "sunset", mp3_url |-> "cdn/sunset"],
    [slug |-> "sunset"],
    [mp3_url |-> "cdn/x"] }

OutputDirs == {"compilations/a", "compilations/b"}

\* what a collaborator sends back; two values, so that a second download would
\* show in the stored file
Contents == {1, 2}

AssetPaths ==
  { ImagePath(t, d, v) : t \in AssetTracks, d \in OutputDirs, v \in BOOLEAN }
  \cup { AudioPath(t, d) : t \in AssetTracks, d \in OutputDirs }

InitAsset ==
  /\ fs = [p \in AssetPaths |-> NoFile]
  /\ requests = 0
  /\ assetCalls = 0
  /\ lastPath = ""
  /\ lastReturn = ""
  /\ fsBefore = [p \in AssetPaths |-> NoFile]
  /\ requestsBefore = 0
  /\ IdleExceptAsset

\* batch_process.generate_track_image(track, output_dir, vertical)
GenerateTrackImage ==
  /\ assetCalls < MaxAssetCalls
  /\ \E track \in AssetTracks, output_dir \in OutputDirs, vertical \in BOOLEAN,
        status \in {"200", "other", "error"}, content \in Contents :
       LET output_path == ImagePath(track, output_dir, vertical)
       IN  /\ lastPath' = output_path
           /\ IF Exists(fs, output_path)
              THEN /\ lastReturn' = output_path
                   /\ UNCHANGED <<fs, requests>>
              ELSE IF status = "200"
              THEN \* requests.post, requests.get, then the file is written
                   /\ requests' = requests + 2
                   /\ fs' = [fs EXCEPT ![output_path] = content]
                   /\ lastReturn' = output_path
              ELSE /\ requests' = requests + 1
                   /\ lastReturn' = IF status = "other" THEN "None" ELSE "raised"
                   /\ UNCHANGED fs
  /\ assetCalls' = assetCalls + 1
  /\ fsBefore' = fs
  /\ requestsBefore' = requests
  /\ UNCHANGED exceptAsset

\* batch_process.download_track_audio(track, output_dir)
DownloadTrackAudio ==
  /\ assetCalls < MaxAssetCalls
  /\ \E track \in AssetTracks, output_dir \in OutputDirs,
        answer \in {"ok", "error"}, content \in Contents :
       LET output_path == AudioPath(track, output_dir)
       IN  /\ lastPath' = output_path
           /\ IF Exists(fs, output_path)
              THEN /\ lastReturn' = output_path
                   /\ UNCHANGED <<fs, requests>>
              ELSE IF "mp3_url" \notin DOMAIN track
              THEN /\ lastReturn' = "None"
                   /\ UNCHANGED <<fs, requests>>
              ELSE IF answer = "ok"
              THEN /\ requests' = requests + 1
                   /\ fs' = [fs EXCEPT ![output_path] = content]
                   /\ lastReturn' = output_path
              ELSE /\ requests' = requests + 1
                   /\ lastReturn' = "raised"
                   /\ UNCHANGED fs
  /\ assetCalls' = assetCalls + 1
  /\ fsBefore' = fs
  /\ requestsBefore' = requests
  /\ UNCHANGED exceptAsset

\* a run that is killed while generate_track_image or download_track_audio
\* is writing its file: the requests have been sent, the file is open
InterruptedWrite ==
  /\ assetCalls < MaxAssetCalls
  /\ \E track \in AssetTracks, output_dir \in OutputDirs,
        kind \in {"image", "vertical", "audio"} :
       LET output_path == IF kind = "audio" THEN AudioPath(track, output_dir)
                          ELSE ImagePath(track, output_dir, kind = "vertical")
       IN  /\ ~Exists(fs, output_path)
           /\ kind = "audio" => "mp3_url" \in DOMAIN track
           /\ lastPath' = output_path
           /\ requests' = requests + (IF kind = "audio" THEN 1 ELSE 2)
           /\ fs' = WriteInterrupted(fs, output_path)
           /\ lastReturn' = "interrupted"
  /\ assetCalls' = assetCalls + 1
  /\ fsBefore' = fs
  /\ requestsBefore' = requests
  /\ UNCHANGED exceptAsset

NextAsset == GenerateTrackImage \/ DownloadTrackAudio \/ InterruptedWrite

SpecAsset == InitAsset /\ [][NextAsset]_vars

(* ------------------------------------------------ metadata fetch alone *)

MaxUrls == 3

UrlLists ==
  UNION { [1..n -> FetchOutcomes] : n \in 0..MaxUrls }

InitFetch ==
  /\ urls \in UrlLists
  /\ fetchIdx = 1
  /\ fetchCounts = [k \in 1..Len(urls) |-> 0]
  /\ fetched = <<>>
  /\ fetchPc = "loop"
  /\ batchReturn = "running"
  /\ infoWritten = FALSE
  /\ IdleExceptFetch

\* batch_fetch_metadata: one turn of the loop over urls
FetchOne ==
  /\ fetchPc = "loop"
  /\ fetchIdx <= Len(urls)
  /\ fetchCounts' = [fetchCounts EXCEPT ![fetchIdx] = @ + 1]
  /\ fetched' = IF urls[fetchIdx] = "raises"
                THEN fetched  \* except Exception: the URL is given up
                ELSE AppendFetched(fetched, MetadataOf(fetchIdx, urls[fetchIdx]))
  /\ fetchIdx' = fetchIdx + 1
  /\ UNCHANGED <<urls, fetchPc, batchReturn, infoWritten>>
  /\ UNCHANGED exceptFetch

\* process_batch after batch_fetch_metadata has returned: nothing fetched
ProcessBatchNoTracks ==
  /\ fetchPc = "loop"
  /\ fetchIdx > Len(urls)
  /\ fetched = <<>>
  /\ fetchPc' = "done"
  /\ batchReturn' = "None"
  /\ UNCHANGED <<urls, fetchIdx, fetchCounts, fetched, infoWritten>>
  /\ UNCHANGED exceptFetch

\* process_batch after batch_fetch_metadata has returned tracks: the rest of
\* the function writes compilation_info.json unless a step on the way raises
ProcessBatchTracks ==
  /\ fetchPc = "loop"
  /\ fetchIdx > Len(urls)
  /\ fetched # <<>>
  /\ fetchPc' = "done"
  /\ \E completes \in BOOLEAN :
       /\ infoWritten' = completes
       /\ batchReturn' = IF completes THEN "dict" ELSE "raised"
  /\ UNCHANGED <<urls, fetchIdx, fetchCounts, fetched>>
  /\ UNCHANGED exceptFetch

NextFetch == FetchOne \/ ProcessBatchNoTracks \/ ProcessBatchTracks

SpecFetch == InitFetch /\ [][NextFetch]_vars

(* ------------------------------------------- get_audio_duration alone *)

MaxProbeTenths == 120

\* what the probe can print: a duration, nothing, or N/A for a file that has
\* no duration
ProbeStdouts ==
  { DurationLine(t) : t \in 0..MaxProbeTenths }
  \cup { <<>>, <<"N", "/", "A", "\n">> }

InitProbe ==
  /\ probeFile \in BOOLEAN
  /\ probeStarts \in BOOLEAN
  /\ probeExit \in ExitCodes
  /\ probeStdout \in ProbeStdouts
  \* a probe that fails prints to stderr only, and it fails on a missing file
  /\ (~probeStarts \/ probeExit # 0) => probeStdout = <<>>
  /\ ~probeStarts => probeExit = 0
  /\ (probeStarts /\ ~probeFile) => probeExit # 0
  /\ probeReturn = "none"
  /\ probeValue = 0
  /\ IdleExceptProbe

\* a call of get_audio_duration(audio_path)
GetAudioDuration ==
  /\ probeReturn = "none"
  /\ LET r == get_audio_duration(probeStarts, probeStdout)
     IN  /\ probeReturn' = r.kind
         /\ probeValue' = r.value
  /\ UNCHANGED <<probeFile, probeStarts, probeExit, probeStdout>>
  /\ UNCHANGED exceptProbe

NextProbe == GetAudioDuration

SpecProbe == InitProbe /\ [][NextProbe]_vars

(* --------------------------------------------- the order of the stages *)

MaxStageTracks == 3

\* the tracks of a run: the mood is the one group_by_mood will detect
StageTrackLists ==
  UNION { { [k \in 1..n |-> [title |-> k, detected_mood |-> m[k], bpm |-> Absent]]
            : m \in [1..n -> Moods] }
          : n \in 1..MaxStageTracks }

InitStage ==
  /\ stageTracks \in StageTrackLists
  /\ stageOrder = <<>>
  /\ stagePc = "fetch"
  /\ stageIdx = 1
  /\ stageLog = <<>>
  /\ IdleExceptStage

\* the loop index after a turn, and the phase that follows the loop
StageAdvance(nextPc) ==
  IF stageIdx < Len(stageTracks)
  THEN stageIdx' = stageIdx + 1 /\ stagePc' = stagePc
  ELSE stageIdx' = 1 /\ stagePc' = nextPc

\* batch_fetch_metadata: one turn of the loop over urls
StageFetch ==
  /\ stagePc = "fetch"
  /\ stageLog' = Append(stageLog, <<"metadata", stageTracks[stageIdx].title>>)
  /\ StageAdvance("classify")
  /\ UNCHANGED <<stageTracks, stageOrder>>
  /\ UNCHANGED exceptStage

\* group_by_mood: one turn of the loop over tracks; after the last turn
\* order_for_flow sorts the list
StageClassify ==
  /\ stagePc = "classify"
  /\ stageLog' = Append(stageLog, <<"mood", stageTracks[stageIdx].title>>)
  /\ StageAdvance("assets")
  /\ stageOrder' = IF stageIdx < Len(stageTracks) THEN stageOrder
                   ELSE order_for_flow(stageTracks)
  /\ UNCHANGED stageTracks
  /\ UNCHANGED exceptStage

\* process_batch step 4: audio download and both images of one track
StageAssets ==
  /\ stagePc = "assets"
  /\ stageLog' = Append(stageLog, <<"image", stageOrder[stageIdx].title>>)
  /\ StageAdvance("segments")
  /\ UNCHANGED <<stageTracks, stageOrder>>
  /\ UNCHANGED exceptStage

\* create_compilation step 3: filter graph and encoder run of one track
StageSegment ==
  /\ stagePc = "segments"
  /\ stageLog' = stageLog \o << <<"graph", stageOrder[stageIdx].title>>,
                               <<"render", stageOrder[stageIdx].title>> >>
  /\ StageAdvance("done")
  /\ UNCHANGED <<stageTracks, stageOrder>>
  /\ UNCHANGED exceptStage

NextStage == StageFetch \/ StageClassify \/ StageAssets \/ StageSegment

SpecStage == InitStage /\ [][NextStage]_vars

(* ------------------------------------- the numbers of one clip, alone *)

MaxClipHundredths == 400

\* the graphs with a slow zoom; for create_visualizer_video the zoom effect
\* and one effect for each of the two uncapped rates
ClipOps == {"create_compilation.segment", "create_short",
            "create_visualizer_video.zoom",
            "create_visualizer_video.glow_spectrum",
            "create_visualizer_video.circle_viz"}

InitClip ==
  /\ clipOp \in ClipOps
  /\ clipDuration \in 0..MaxClipHundredths
  /\ total_frames = 0
  /\ fadeOutStart = 0
  /\ zoomExpr = [rate |-> 0, cap |-> 0]
  /\ clipPc = "start"
  /\ IdleExceptClip

\* the part of a render operation that turns the duration into the numbers of
\* its filter graph
BuildClipNumbers ==
  /\ clipPc = "start"
  /\ total_frames' = TotalFrames(clipDuration)
  /\ fadeOutStart' = IF clipOp = "create_short" THEN FadeOutStart(clipDuration)
                     ELSE 0
  /\ zoomExpr' = ZoomExprOf(clipOp)
  /\ clipPc' = "built"
  /\ UNCHANGED <<clipOp, clipDuration>>
  /\ UNCHANGED exceptClip

NextClip == BuildClipNumbers

SpecClip == InitClip /\ [][NextClip]_vars

(* ---------------------------------------------- text overlays, alone *)

MaxTextLen == 2

\* titles and channel names over a letter, the quote and the colon
TextChars == {"a", "'", ":"}

Texts == UNION { [1..n -> TextChars] : n \in 0..MaxTextLen }

TextOps == {"create_visualizer_video", "create_short",
            "create_compilation.segment"}

InitText ==
  /\ textOp \in TextOps
  /\ titleIn \in Texts
  /\ channelIn \in Texts
  /\ overlayTexts = <<>>
  /\ textPc = "start"
  /\ IdleExceptText

\* the part of a render operation that writes the drawtext stages
BuildOverlay ==
  /\ textPc = "start"
  /\ overlayTexts' = OverlayTexts(textOp, titleIn, channelIn)
  /\ textPc' = "built"
  /\ UNCHANGED <<textOp, titleIn, channelIn>>
  /\ UNCHANGED exceptText

NextText == BuildOverlay

SpecText == InitText /\ [][NextText]_vars

(* ------------------------------------------------------------- claims *)

Ordered == compilation_info.tracks

Finished == pc = "done"

\* position of the track titled ttl in the list s
Pos(s, ttl) == CHOOSE j \in 1..Len(s) : s[j].title = ttl

\* sum of the durations of the first k tracks of s
RECURSIVE SumTo(_, _)
SumTo(s, k) == IF k = 0 THEN 0 ELSE SumTo(s, k - 1) + s[k].duration

\* the segments whose encoder call exited 0, in track order
RenderedOk == SelectSeq(Indices(Ordered), LAMBDA k : encoderRc[k] = 0)

\* C1: the list of segments handed to the final concatenation is exactly the
\* successfully rendered segments, in track order; a segment whose encoder
\* exited non-zero is never listed.
C1_ConcatOnlyRendered ==
  concatRc # NotRun => concat_list = RenderedOk

\* C2: the returned chapter list has one entry per segment of the final
\* video and each chapter starts at the sum of the durations of the segments
\* before it in the final video.
C2_ChaptersMatchFinalVideo ==
  result = "dict" =>
    /\ Len(chapters) = Len(concat_list)
    /\ \A j \in 1..Len(concat_list) :
         j <= Len(chapters) =>
           /\ chapters[j].title = Ordered[concat_list[j]].title
           /\ chapters[j].start =
                SumTo([k \in 1..Len(concat_list) |-> Ordered[concat_list[k]]], j - 1)

\* C3: when no segment rendered successfully the run returns None.
C3_NoRenderNoResult ==
  (Finished /\ RenderedOk = <<>>) => result = "None"

\* C4: if some track's segment renders and the final concat succeeds, the
\* run does not return None, whatever the raw-audio concat does.
C4_PartialSuccessReturns ==
  ( /\ Finished
    /\ finalConcatExit = 0
    /\ \E k \in 1..Len(Ordered) :
         ~Skipped(Ordered[k]) /\ encoderExit[Ordered[k].title] = 0 )
  => result # "None"

\* C5: a track whose encoder call exited non-zero has seen exactly two
\* encoder invocations (the render and one fallback retry).
C5_FallbackRetry ==
  \A k \in 1..Len(encoderRc) :
    (encoderRc[k] # NotRun /\ encoderRc[k] # 0) => encoderCalls[k] = 2

\* C6: if the final concat exits non-zero, create_compilation returns None.
C6_ConcatFailureFatal ==
  (concatRc # NotRun /\ concatRc # 0) => result = "None"

C6_Witness ==
  Finished /\ concatRc = 1 /\ result = "None" /\ Len(concat_list) >= 1

\* the sequencer's key as the spec states it: chill=0, deep=1, fusion=2,
\* party=3, and the tempo field (100 when the track has none)
ClaimRank(t) ==
  CASE t.detected_mood = "chill"  -> 0
    [] t.detected_mood = "deep"   -> 1
    [] t.detected_mood = "fusion" -> 2
    [] t.detected_mood = "party"  -> 3

ClaimTempo(t) == IF t.bpm = Absent THEN 100 ELSE t.bpm

HasOrdered == pc \notin {"batch", "batch_none"}

\* C7: order_for_flow returns a permutation of its non-empty input and is
\* stable: tracks with identical (mood rank, tempo) keep their input order.
C7_PermutationStable ==
  HasOrdered =>
    /\ Len(Ordered) = Len(tracks)
    /\ \A k \in 1..Len(tracks) :
         Cardinality({j \in 1..Len(Ordered) : Ordered[j] = tracks[k]}) = 1
    /\ \A a, b \in 1..Len(tracks) :
         ( /\ a < b
           /\ ClaimRank(tracks[a]) = ClaimRank(tracks[b])
           /\ ClaimTempo(tracks[a]) = ClaimTempo(tracks[b]) )
         => Pos(Ordered, tracks[a].title) < Pos(Ordered, tracks[b].title)

\* an input that had to be reordered and holds two tracks with equal keys
C7_Witness ==
  /\ HasOrdered
  /\ Len(tracks) = 3
  /\ Ordered # tracks
  /\ \E a, b \in 1..Len(tracks) :
       /\ a < b
       /\ ClaimRank(tracks[a]) = ClaimRank(tracks[b])
       /\ ClaimTempo(tracks[a]) = ClaimTempo(tracks[b])
       /\ Pos(Ordered, tracks[a].title) < Pos(Ordered, tracks[b].title)

C9_UnknownTempoAs100 ==
  HasOrdered =>
    \A u, v \in 1..Len(Ordered) :
      ( /\ Ordered[u].bpm \in {0, Absent}
        /\ Ordered[u].detected_mood = Ordered[v].detected_mood )
      => /\ (Ordered[v].bpm = 90  => v < u)
         /\ (Ordered[v].bpm = 110 => u < v)

\* step 2 has run (the segment loop that follows it always advances i)
HasChapters == pc \in {"segments", "concat"} \/ (pc = "done" /\ i > 1)

\* C10: the first chapter starts at 0, each chapter starts at the sum of the
\* durations of the preceding tracks, starts never decrease, the last start
\* plus the last duration is the compilation's total duration; the
\* party/200, chill/150, deep/300 input gives chill@0:00, deep@2:30,
\* party@7:30 and total 650.
C10_ChapterOffsets ==
  HasChapters =>
    /\ Len(chapters) = Len(Ordered)
    /\ chapters[1].start = 0
    /\ \A k \in 1..Len(chapters) :
         /\ chapters[k].start = SumTo(Ordered, k - 1)
         /\ chapters[k].title = Ordered[k].title
    /\ \A k \in 1..(Len(chapters) - 1) :
         chapters[k].start <= chapters[k + 1].start
    /\ chapters[Len(chapters)].start + Ordered[Len(Ordered)].duration
         = compilation_info.total_duration
    /\ ( /\ Len(tracks) = 3
         /\ <<tracks[1].detected_mood, tracks[1].duration>> = <<"party", 200>>
         /\ <<tracks[2].detected_mood, tracks[2].duration>> = <<"chill", 150>>
         /\ <<tracks[3].detected_mood, tracks[3].duration>> = <<"deep", 300>> )
       => /\ [k \in 1..3 |-> chapters[k].title] = <<2, 3, 1>>
          /\ [k \in 1..3 |-> chapters[k].timestamp] = <<"0:00", "2:30", "7:30">>
          /\ compilation_info.total_duration = 650

C10_Witness ==
  /\ HasChapters
  /\ Len(tracks) = 3
  /\ <<tracks[1].detected_mood, tracks[1].duration>> = <<"party", 200>>
  /\ <<tracks[2].detected_mood, tracks[2].duration>> = <<"chill", 150>>
  /\ <<tracks[3].detected_mood, tracks[3].duration>> = <<"deep", 300>>
  /\ chapters[3].start = 450

\* two decimal digits, written out digit by digit
TwoDigits(n) == ToString(n \div 10) \o ToString(n % 10)

DeclaredPos(m) == CHOOSE k \in 1..Len(MoodsDeclared) : MoodsDeclared[k] = m

TopScore == CHOOSE n \in {scores[m] : m \in Moods} : \A m \in Moods : scores[m] <= n

\* C12: detect_mood returns one of the four moods; it is the mood of highest
\* score when that score is non-zero, the first declared of the tied moods;
\* when every mood scores zero (the empty description too) it is chill.
C12_HighestScoreFirstDeclared ==
  mood_result # "none" =>
    /\ mood_result \in {"chill", "party", "deep", "fusion"}
    /\ TopScore = 0 => mood_result = "chill"
    /\ TopScore > 0 =>
         /\ scores[mood_result] = TopScore
         /\ \A m \in Moods :
              scores[m] = TopScore => DeclaredPos(mood_result) <= DeclaredPos(m)
    /\ descriptionIn = <<>> => mood_result = "chill"

\* party and deep tie above chill: party, declared first, wins
C12_Witness ==
  /\ mood_result = "party"
  /\ scores["party"] = scores["deep"]
  /\ scores["party"] > scores["chill"]

\* number of positions of d at which keyword starts
Occurrences(keyword, d) ==
  Cardinality({ j \in 1..(Len(d) - Len(keyword) + 1) :
                  SubSeq(d, j, j + Len(keyword) - 1) = keyword })

RECURSIVE SumOccurrences(_, _, _)
SumOccurrences(kws, k, d) ==
  IF k = 0 THEN 0
  ELSE SumOccurrences(kws, k - 1, d) + Occurrences(kws[k], d)

DeepDeepDeepPartyDance ==
  Join(<< <<"d","e","e","p">>, <<"d","e","e","p">>, <<"d","e","e","p">>,
          <<"P","a","r","t","y">>, <<"d","a","n","c","e">> >>)

\* C13: a mood's score is the total number of occurrences of its keywords in
\* the lower-cased description; "deep deep deep Party dance" is deep.
C13_ScoreCountsOccurrences ==
  mood_result # "none" =>
    /\ \A m \in Moods :
         scores[m] = SumOccurrences(MOOD_KEYWORDS[m], Len(MOOD_KEYWORDS[m]),
                                    lower(descriptionIn))
    /\ descriptionIn = DeepDeepDeepPartyDance => mood_result = "deep"

\* the filters a graph uses, and the labels its stages read
GraphFilters(g) ==
  UNION { { g[k].f[j] : j \in 1..Len(g[k].f) } : k \in 1..Len(g) }
GraphReads(g) ==
  UNION { { g[k].in[j] : j \in 1..Len(g[k].in) } : k \in 1..Len(g) }

\* C14: the render operations never raise: whatever the probe and the encoder
\* do and whichever input files are missing, a call that has returned has
\* returned a boolean
C14_RenderNeverRaises ==
  renderOp \in RenderOps => renderResult \in {"running", "True", "False"}

\* C15: create_visualizer_video called with an effect that is not one of the
\* known effects, or with the effect left out, does not raise, and the graph
\* it builds is the static hold: scale and crop of the image, a static image
\* hold (plus the text overlay), the original audio mapped, and no zoom,
\* visualization, glow or mask filter
C15_UnknownEffectStaticHold ==
  (/\ renderOp = "create_visualizer_video"
   /\ effectArg \notin NamedEffects
   /\ renderResult # "running")
  => /\ renderResult # "raised"
     /\ graph # <<>> =>
          /\ "loop" \in GraphFilters(graph)
          /\ GraphFilters(graph) \subseteq {"scale", "crop", "loop", "drawtext"}
          /\ audioMap = "0:a"

\* C16: for every effect selection, the graph create_visualizer_video builds
\* when a mask is supplied contains the masked-merge stage; the graph built
\* without a mask contains no masked-merge stage, reads no mask input, and is
\* strictly shorter than the graph for the same track and effect with a mask
C16_MaskStageIffMask ==
  (renderOp = "create_visualizer_video" /\ graph # <<>>)
  => /\ maskArg # "none" => "maskedmerge" \in GraphFilters(graph)
     /\ maskArg = "none" =>
          /\ "maskedmerge" \notin GraphFilters(graph)
          /\ "2:v" \notin GraphReads(graph)
          /\ Len(graph) < Len(filter_complex(EffectOrDefault(effectArg),
                                             nameArg, "present"))

\* the hook start was computed, not given
HookComputed == shortPc = "called" /\ startArg = Absent

\* C17: for every track duration, tracks shorter than the clip included, the
\* computed hook start is non-negative and the audio window requested for the
\* short, [start, start + clip duration], ends within the track
C17_HookWindowInsideTrack ==
  HookComputed =>
    /\ start_time >= 0
    /\ clipSs + clipT <= Ticks * TrackDuration

\* C18: the computed hook start is 15% of the track duration clamped against
\* the clip duration D actually requested: for a track of at least D + 5
\* seconds it is min(0.15 * T, T - D - 5), so start + D + 5 <= T
C18_HookClampUsesRequestedDuration ==
  (HookComputed /\ TrackDuration >= durationArg + 5) =>
    /\ start_time = Min(3 * TrackDuration,
                        Ticks * (TrackDuration - durationArg - 5))
    /\ start_time + Ticks * (durationArg + 5) <= Ticks * TrackDuration

\* the last call was for a file an earlier call had stored
CalledOnStored == assetCalls > 0 /\ fsBefore[lastPath] # NoFile

\* C19: asset fetching is idempotent by file presence: a call of
\* generate_track_image or download_track_audio for a slug, orientation and
\* output directory whose file an earlier call has stored returns that path,
\* sends no request to a collaborator, and leaves the stored files as they were
C19_FetchIdempotentByPresence ==
  CalledOnStored =>
    /\ lastReturn = lastPath
    /\ requests = requestsBefore
    /\ fs = fsBefore

C19_Witness ==
  /\ CalledOnStored
  /\ assetCalls >= 2
  /\ lastReturn = lastPath
  /\ requests > 0

\* the URLs whose fetch returns a record with a non-empty title
GivesTrack(k) == urls[k] \in {"ok", "null_duration"}

\* the records of the first n URLs that give a track, in URL order
RECURSIVE TracksUpTo(_)
TracksUpTo(n) ==
  IF n = 0 THEN <<>>
  ELSE IF GivesTrack(n) THEN Append(TracksUpTo(n - 1), MetadataOf(n, urls[n]))
  ELSE TracksUpTo(n - 1)

\* C20: batch_fetch_metadata fetches each URL exactly once and returns, in URL
\* order, exactly the records with a non-empty title; a URL whose fetch raises
\* or gives an empty title adds no track and does not stop the later URLs; and
\* process_batch returns None without writing the compilation info when no
\* track was fetched
C20_FetchOncePerUrlSkipFailures ==
  fetchPc = "done" =>
    /\ \A k \in 1..Len(urls) : fetchCounts[k] = 1
    /\ fetched = TracksUpTo(Len(urls))
    /\ fetched = <<>> => (batchReturn = "None" /\ ~infoWritten)

C20_Witness ==
  /\ fetchPc = "done"
  /\ Len(urls) = 3
  /\ urls[1] = "raises"
  /\ urls[2] = "empty_title"
  /\ urls[3] = "ok"
  /\ Len(fetched) = 1
  /\ fetched[1].suno_url = 3

\* C21: get_audio_duration reports a missing path as AssetNotFoundError and a
\* probe that exits non-zero or prints unparsable output as ProbeFailureError,
\* and nothing else escapes it
C21_ProbeErrorKinds ==
  probeReturn # "none" =>
    /\ ~probeFile => probeReturn = "AssetNotFoundError"
    /\ (probeFile /\ probeStarts /\ (probeExit # 0 \/ ~IsFloat(strip(probeStdout))))
         => probeReturn = "ProbeFailureError"
    /\ probeReturn \in {"float", "AssetNotFoundError", "ProbeFailureError"}

\* the input streams a graph may read, and the index of the input they need
StreamIndex(label) ==
  CASE label \in {"0:v", "0:a"} -> 0
    [] label \in {"1:v", "1:a"} -> 1
    [] label \in {"2:v", "2:a"} -> 2
    [] OTHER -> Absent

\* the labels the stages before stage k produce
ProducedBefore(g, k) ==
  UNION { { g[j].out[n] : n \in 1..Len(g[j].out) } : j \in 1..(k - 1) }

\* the labels a graph produces and no stage reads
Unconsumed(g) == ProducedBefore(g, Len(g) + 1) \ GraphReads(g)

\* the graph was handed to the encoder by one of the three operations named
GraphEncoded ==
  /\ renderOp \in {"create_visualizer_video", "create_short",
                   "create_compilation.segment"}
  /\ encoderRuns > 0

\* C22: the filter graph create_visualizer_video, create_compilation and
\* create_short hand to the encoder is a pre-sorted stage list: every label a
\* stage reads is an input stream the command supplies (index below the number
\* of -i inputs) or a label an earlier stage produced, and besides the mapped
\* audio the graph leaves exactly one label, the video output [v], which is
\* produced by the last stage
C22_GraphPreSorted ==
  GraphEncoded =>
    /\ \A k \in 1..Len(graph) : \A n \in 1..Len(graph[k].in) :
         LET label == graph[k].in[n]
         IN  \/ (StreamIndex(label) # Absent /\ StreamIndex(label) < inputCount)
             \/ label \in ProducedBefore(graph, k)
    /\ Unconsumed(graph) \ {audioMap} = {"v"}
    /\ graph[Len(graph)].out = <<"v">>

\* the place of a track in the order the run processes the tracks in
ProcessingPos(ttl) ==
  CHOOSE j \in 1..Len(stageTracks) : order_for_flow(stageTracks)[j].title = ttl

\* C23: processing is sequential per track: over the whole run no stage of a
\* later track comes before a stage of an earlier track
C23_SequentialPerTrack ==
  \A a, b \in 1..Len(stageLog) :
    a < b => ProcessingPos(stageLog[a][2]) <= ProcessingPos(stageLog[b][2])

\* C24: a file cut short by an interrupted run stays at the cache path, and a
\* later call for the same track treats it as complete: it returns the path,
\* sends no request, leaves the partial file as it is, and the path goes on to
\* rendering in the track's local field
C24_PartialFileTakenAsComplete ==
  /\ lastReturn = "interrupted" => fs[lastPath] = Partial
  /\ (assetCalls > 0 /\ fsBefore[lastPath] = Partial) =>
       /\ lastReturn = lastPath
       /\ requests = requestsBefore
       /\ fs[lastPath] = Partial
       /\ StoredInTrack(lastReturn) = lastPath

C24_Witness ==
  /\ assetCalls >= 2
  /\ fsBefore[lastPath] = Partial
  /\ lastReturn = lastPath
  /\ StoredInTrack(lastReturn) = lastPath

\* the graph has a global fade-out
HasFadeOut == clipPc = "built" /\ clipOp = "create_short"

\* C25: in every graph with a global fade-out the fade-out starts at
\* max(0, duration - fade duration): never negative, also for a clip shorter
\* than the fade or than twice the fade, and for a clip at least as long as
\* the fade the fade-out ends exactly at the clip's end
C25_FadeOutStartClamped ==
  HasFadeOut =>
    /\ fadeOutStart = Max(0, clipDuration - FadeDuration)
    /\ fadeOutStart >= 0
    /\ clipDuration >= FadeDuration => fadeOutStart + FadeDuration = clipDuration

\* the nearest integer to duration x frame rate
RoundFrames(hundredths) == (hundredths * VIDEO_FPS + 50) \div Hundredths

\* C26: the frame count of a segment or clip is round(duration x frame rate),
\* the nearest integer, for every duration (2.99 s at 30 fps gives 90)
C26_FrameCountRounded ==
  clipPc = "built" => total_frames = RoundFrames(clipDuration)

\* C27: in every graph with the slow zoom the zoom factor is non-decreasing in
\* the frame index and never exceeds a fixed maximum zoom, the cap of the zoom
\* expression, for every frame index up to the frame count
C27_ZoomMonotoneCapped ==
  clipPc = "built" =>
    /\ zoomExpr.cap # NoCap
    /\ \A n \in 0..total_frames :
         /\ ZoomAt(zoomExpr, n) <= zoomExpr.cap
         /\ n > 0 => ZoomAt(zoomExpr, n - 1) <= ZoomAt(zoomExpr, n)

\* C28: only tracks with a known duration (> 0) enter the chapter computation:
\* no chapter belongs to a track whose duration is 0, and no two consecutive
\* chapters share a start offset
C28_ChaptersOnlyKnownDuration ==
  HasChapters =>
    /\ \A k \in 1..Len(chapters) :
         Ordered[Pos(Ordered, chapters[k].title)].duration > 0
    /\ \A k \in 1..(Len(chapters) - 1) :
         chapters[k].start # chapters[k + 1].start

\* every quote and colon of the text is part of an escape: '\'' , \' or \:
RECURSIVE FullyEscaped(_)
FullyEscaped(chars) ==
  IF chars = <<>> THEN TRUE
  ELSE IF Len(chars) >= 4 /\ SubSeq(chars, 1, 4) = <<"'", "\\", "'", "'">>
  THEN FullyEscaped(SubSeq(chars, 5, Len(chars)))
  ELSE IF Len(chars) >= 2 /\ chars[1] = "\\" /\ chars[2] \in {"'", ":"}
  THEN FullyEscaped(SubSeq(chars, 3, Len(chars)))
  ELSE chars[1] \notin {"'", ":"} /\ FullyEscaped(Tail(chars))

\* C29: in every built graph every single quote and every colon of the track
\* title and of the channel name that goes into a text overlay is escaped
C29_OverlayTextEscaped ==
  textPc = "built" =>
    \A k \in 1..Len(overlayTexts) : FullyEscaped(overlayTexts[k])

\* an input file the operation needs is absent
RequiredInputAbsent ==
  CASE renderOp \in {"create_visualizer_video", "create_short"} ->
         \/ ~audioFile
         \/ ~imageFile
         \/ /\ renderOp = "create_visualizer_video"
            /\ EffectOrDefault(effectArg) \in MaskedEffects
            /\ maskArg = "missing"
    [] renderOp = "create_parallax_video" -> ~imageFile \/ maskArg = "missing"
    [] OTHER -> FALSE

\* C30: create_visualizer_video, create_short (create_short.py) and
\* create_parallax_video never start the encoder when an input file they need
\* is absent: they return False with no encoder invocation, so nothing is
\* written at the output path
C30_NoEncoderWithoutInputs ==
  (renderResult # "running" /\ RequiredInputAbsent) =>
    /\ renderResult = "False"
    /\ encoderRuns = 0

====
